---- MODULE Spec2Model ----
(***************************************************************************)
(* Model of the dual-model SPARQL chain of the Coptic Metadata Viewer        *)
(* (src/streamlit_app/app.py, duplicated in src/notebooks/qa_llm_test.py).  *)
(*                                                                         *)
(* Python strings whose characters matter (generated queries, formatted    *)
(* rows, contexts) are sequences of one-character strings; strings that    *)
(* the chain only passes along (questions, answers, exception texts) are   *)
(* TLA+ strings.                                                           *)
(***************************************************************************)
EXTENDS Integers, Sequences, FiniteSets, TLC

(***************************************************************************)
(* Bounds                                                                  *)
(***************************************************************************)
\* longest raw query, in tokens, handed to _normalize_sparql on its own
MaxTokens == 5
\* longest generator output, in tokens, inside invoke
MaxGenTokens == 1
\* most rows the executor returns
MaxRows == 2
\* most values in one result row
MaxCols == 2
\* longest text and longest term, in characters, handed to highlight_term
MaxTextLen == 3
\* longest text, in characters, typed into the text area
MaxInputLen == 3

(***************************************************************************)
(* Characters and words                                                    *)
(***************************************************************************)
\* the backtick character (U+0060), which a TLA+ string cannot hold
BT == "backtick"
NL == "\n"
SP == " "

\* the characters str.strip() removes that occur in the model
Whitespace == {SP, NL}

LowerLetters == <<"a","b","c","d","e","f","g","h","i","j","k","l","m",
                  "n","o","p","q","r","s","t","u","v","w","x","y","z">>
UpperLetters == <<"A","B","C","D","E","F","G","H","I","J","K","L","M",
                  "N","O","P","Q","R","S","T","U","V","W","X","Y","Z">>

FENCE == <<BT, BT, BT>>
FENCE_SPARQL == <<BT, BT, BT, "s", "p", "a", "r", "q", "l">>
WHERE == <<"W", "H", "E", "R", "E">>
where == <<"w", "h", "e", "r", "e">>
SELECT == <<"S", "E", "L", "E", "C", "T">>
ASK == <<"A", "S", "K">>
CONSTRUCT == <<"C", "O", "N", "S", "T", "R", "U", "C", "T">>
DESCRIBE == <<"D", "E", "S", "C", "R", "I", "B", "E">>
PREFIX == <<"P", "R", "E", "F", "I", "X">>
SELECT_STAR == <<"S", "E", "L", "E", "C", "T", " ", "*", " ">>

(***************************************************************************)
(* Python str methods                                                      *)
(***************************************************************************)
\* s[i:] with i counted from 1
Drop(s, n) == SubSeq(s, n + 1, Len(s))

\* str.startswith
StartsWith(s, p) == Len(s) >= Len(p) /\ SubSeq(s, 1, Len(p)) = p

\* str.upper, character by character
UpperChar(c) ==
    IF \E i \in DOMAIN LowerLetters : LowerLetters[i] = c
    THEN UpperLetters[CHOOSE i \in DOMAIN LowerLetters : LowerLetters[i] = c]
    ELSE c

Upper(s) == [i \in DOMAIN s |-> UpperChar(s[i])]

\* str.lstrip / str.rstrip / str.strip with no argument
RECURSIVE LStrip(_)
LStrip(s) ==
    IF s # <<>> /\ Head(s) \in Whitespace THEN LStrip(Tail(s)) ELSE s

RECURSIVE RStrip(_)
RStrip(s) ==
    IF s # <<>> /\ s[Len(s)] \in Whitespace
    THEN RStrip(SubSeq(s, 1, Len(s) - 1))
    ELSE s

Strip(s) == RStrip(LStrip(s))

\* str.replace(old, new): leftmost non-overlapping occurrences, one scan
RECURSIVE Replace(_, _, _)
Replace(s, old, new) ==
    IF s = <<>> THEN <<>>
    ELSE IF StartsWith(s, old) THEN new \o Replace(Drop(s, Len(old)), old, new)
    ELSE <<Head(s)>> \o Replace(Tail(s), old, new)

\* LATIN CAPITAL LETTER I WITH DOT ABOVE (U+0130) and COMBINING DOT ABOVE
\* (U+0307): str.lower() turns the first into "i" followed by the second
IDOT == "I-with-dot-above"
CDOT == "combining-dot-above"

\* str.lower of one character: a string of one or two characters
LowerChar(c) ==
    IF c = IDOT THEN <<"i", CDOT>>
    ELSE IF \E i \in DOMAIN UpperLetters : UpperLetters[i] = c
    THEN <<LowerLetters[CHOOSE i \in DOMAIN UpperLetters : UpperLetters[i] = c]>>
    ELSE <<c>>

\* str.lower
RECURSIVE Lower(_)
Lower(s) == IF s = <<>> THEN <<>> ELSE LowerChar(Head(s)) \o Lower(Tail(s))

\* s[a:b] with 0 <= a, indices counted from 0 and clamped to the length
PySlice(s, a, b) ==
    LET hi == IF b > Len(s) THEN Len(s) ELSE b
    IN  IF a >= hi THEN <<>> ELSE SubSeq(s, a + 1, hi)

\* str.find: the lowest index (from 0) where sub occurs, -1 when none
Find(s, sub) ==
    LET hits == {k \in 0..Len(s) : PySlice(s, k, k + Len(sub)) = sub
                                    /\ k + Len(sub) <= Len(s)}
    IN  IF hits = {} THEN -1
        ELSE CHOOSE k \in hits : \A h \in hits : k <= h

\* sep.join(parts)
RECURSIVE Join(_, _)
Join(sep, parts) ==
    IF parts = <<>> THEN <<>>
    ELSE IF Len(parts) = 1 THEN parts[1]
    ELSE parts[1] \o sep \o Join(sep, Tail(parts))

(***************************************************************************)
(* DualLLMSparqlChain._normalize_sparql                                    *)
(***************************************************************************)
\* CleanQuery without its last replace call: lone backticks survive
CleanQuery_KeepsLoneBackticks(query) ==
    Replace(Replace(Strip(query), FENCE_SPARQL, <<>>), FENCE, <<>>)

\* the first statement: strip, then the three replace calls
CleanQuery(query) ==
    Replace(Replace(Replace(Strip(query), FENCE_SPARQL, <<>>), FENCE, <<>>),
            <<BT>>, <<>>)

\* _normalize_sparql testing the prefix without upper()
_normalize_sparql_CaseSensitive(query) ==
    LET q == CleanQuery(query)
    IN  IF StartsWith(q, WHERE) THEN SELECT_STAR \o q ELSE q

_normalize_sparql(query) ==
    LET q == CleanQuery(query)
    IN  IF StartsWith(Upper(q), WHERE) THEN SELECT_STAR \o q ELSE q

(***************************************************************************)
(* Raw queries: concatenations of a few tokens                             *)
(***************************************************************************)
Tokens == {<<BT>>, FENCE, FENCE_SPARQL, <<NL>>, WHERE, where, SELECT}

RECURSIVE Concat(_)
Concat(ts) == IF ts = <<>> THEN <<>> ELSE Head(ts) \o Concat(Tail(ts))

TokenSeqs(n) == UNION {[1..k -> Tokens] : k \in 0..n}

RawQueries == {Concat(ts) : ts \in TokenSeqs(MaxTokens)}

(***************************************************************************)
(* Collaborators of DualLLMSparqlChain.invoke                              *)
(***************************************************************************)
\* the concurrent callers of chain.invoke (one Streamlit session each)
Requests == {1, 2}

\* user questions; the chain only passes them along
Questions == {"Who wrote 'Sermo asceticus'?", "List the manuscripts."}

\* generator outputs: the end-to-end example of the specification and every
\* concatenation of a few tokens
FencedSelect == FENCE_SPARQL \o <<NL>> \o SELECT \o <<NL>> \o FENCE

GenTokens == {FENCE_SPARQL, <<NL>>, SELECT, where, PREFIX}

GenOutputs ==
    {FencedSelect} \cup
    {Concat(ts) : ts \in UNION {[1..k -> GenTokens] : k \in 0..MaxGenTokens}}

\* values bound in a result row: an rdflib Literal (here the empty one) or
\* a URIRef; str() of an unbound variable (None) is handled by Str but no
\* result set below holds one
EmptyLiteral == [kind |-> "Literal", text |-> <<>>]
AgentURI == [kind |-> "URIRef", text |-> <<"u">>]

Values == {EmptyLiteral, AgentURI}

ResultRows == UNION {[1..k -> Values] : k \in 1..MaxCols}

ResultSets == UNION {[1..k -> ResultRows] : k \in 0..MaxRows}

\* texts of the exceptions graph.query raises
QueryErrors == {"Expected SelectQuery", "Unknown namespace prefix"}

\* text of the exception a model backend raises
ModelUnavailable == "ConnectError"

\* responses of the answer model
Answers == {"Shenoute wrote 'Sermo asceticus'.", "I don't know."}

\* the labels the graph holds for AgentURI
GraphLabels ==
    [prefLabel |-> [u \in {AgentURI.text} |-> <<"p">>],
     name      |-> [u \in {AgentURI.text} |-> <<"n">>]]

\* the chain object built by __init__
ChainObject ==
    [sparql_llm_chain |-> "sparql_prompt | sparql_llm",
     qa_llm_chain     |-> "qa_prompt | qa_llm",
     graph            |-> GraphLabels]

\* Python values of the returned dict
PyNone == [type |-> "NoneType", value |-> ""]
PyStr(s) == [type |-> "str", value |-> s]
NoResultsFound == "No results found."

\* str(v) replaced by a lookup of the preferred label in the graph
Str_Labelled(v) ==
    IF v.kind = "URIRef" /\ v.text \in DOMAIN GraphLabels.prefLabel
    THEN GraphLabels.prefLabel[v.text]
    ELSE IF v.kind = "None" THEN <<"N", "o", "n", "e">> ELSE v.text

\* str(v) for a bound value
Str(v) == IF v.kind = "None" THEN <<"N", "o", "n", "e">> ELSE v.text

ROW_SEP == <<" ", "|", " ">>

\* step 4 of invoke:  [" | ".join(str(v) for v in row) for row in results]
FormatRow(row) == Join(ROW_SEP, [j \in DOMAIN row |-> Str(row[j])])

\* step 4 walking the result set from its last row to its first
FormatRows_Reversed(results) ==
    [i \in DOMAIN results |-> FormatRow(results[Len(results) + 1 - i])]

FormatRows(results) == [i \in DOMAIN results |-> FormatRow(results[i])]

\* context = "\n".join(rows)
FormatContext(rows) == Join(<<NL>>, rows)

\* step 5's test written as  `if rows is not None:`
Truthy_NotNone(list) == TRUE

\* step 5's test  `if rows:`  (a list is true when it is not empty)
Truthy(list) == list # <<>>

\* how a collaborator call ended
Returned(v) == [kind |-> "return", value |-> v]
Raised(e) == [kind |-> "raise", value |-> e]

\* the except branch with the message stored under "result"
ErrorResult_Swapped(e, query) ==
    [result |-> PyStr(e), error |-> PyNone, sparql_query |-> query,
     rows |-> <<>>]

\* the dict returned from the except branch
ErrorResult(e, query) ==
    [result |-> PyNone, error |-> PyStr(e), sparql_query |-> query,
     rows |-> <<>>]

\* the final dict with the fixed answer in place of the model's response
AnswerResult_FixedAnswer(a, query, rows) ==
    [result |-> PyStr(NoResultsFound), sparql_query |-> query, rows |-> rows]

\* the dict returned at the end of invoke
AnswerResult(a, query, rows) ==
    [result |-> PyStr(a), sparql_query |-> query, rows |-> rows]

VARIABLES
    chain,          \* the fields of the shared DualLLMSparqlChain object
    pc,             \* pc[r]: where request r is inside invoke
    user_question,  \* invoke's argument
    generated,      \* the raw text the generator returned
    sparql_query,   \* the local sparql_query after step 2
    results,        \* what graph.query returned
    rows,           \* the local rows
    context,        \* the local context
    ret,            \* the dict invoke returned (pc[r] = "Done")
    raised,         \* the exception invoke raised (pc[r] = "Raised")
    calls,          \* the collaborator calls invoke made, in order
    replies         \* replies[r][i]: how the i-th call of request r ended

VARIABLES nq_pc, nq_raw, nq_once, nq_twice

nvars == <<nq_pc, nq_raw, nq_once, nq_twice>>

cvars == <<chain, pc, user_question, generated, sparql_query, results, rows,
           context, ret, raised, calls, replies>>

VARIABLES
    hl_pc,          \* "call" before highlight_term runs, "done" after
    hl_text,        \* highlight_term's argument text
    hl_term,        \* highlight_term's argument term
    hl_out          \* the list highlight_term returned

hvars == <<hl_pc, hl_text, hl_term, hl_out>>

VARIABLES
    ui_app,         \* which script runs: "app" or "streamlit_app"
    ui_pc,          \* where the Submit handler is
    mode,           \* the st.radio choice
    user_input,     \* the text area (user_question in streamlit_app)
    query_text,     \* the local query_text
    search_string,  \* the local search_string
    universal_query, \* the local universal_query
    search_term,    \* the local search_term
    dispatched,     \* what the handler sent to the chain or to the store
    ui_result,      \* what chain.invoke returned (result / answer)
    shown           \* the widgets the handler has drawn, in order

uvars == <<ui_app, ui_pc, mode, user_input, query_text, search_string,
           universal_query, search_term, dispatched, ui_result, shown>>

vars == <<cvars, nvars, hvars, uvars>>

\* no request has called invoke yet
ChainIdle(active) ==
    /\ chain = ChainObject
    /\ pc = [r \in Requests |-> IF r \in active THEN "idle" ELSE "off"]
    /\ user_question = [r \in Requests |-> ""]
    /\ generated = [r \in Requests |-> <<>>]
    /\ sparql_query = [r \in Requests |-> <<>>]
    /\ results = [r \in Requests |-> <<>>]
    /\ rows = [r \in Requests |-> <<>>]
    /\ context = [r \in Requests |-> <<>>]
    /\ ret = [r \in Requests |-> <<>>]
    /\ raised = [r \in Requests |-> ""]
    /\ calls = [r \in Requests |-> <<>>]
    /\ replies = [r \in Requests |-> <<>>]

NormIdle ==
    /\ nq_pc = "off"
    /\ nq_raw = <<>>
    /\ nq_once = <<>>
    /\ nq_twice = <<>>

\* highlight_term is not running
HighlightIdle ==
    /\ hl_pc = "off"
    /\ hl_text = <<>>
    /\ hl_term = <<>>
    /\ hl_out = <<>>

\* nothing sent yet, nothing returned yet
NothingDispatched == [to |-> "nothing", text |-> <<>>]
NoResult == [pending |-> TRUE]

\* no script run is handling a Submit
UIIdle ==
    /\ ui_app = "off"
    /\ ui_pc = "off"
    /\ mode = ""
    /\ user_input = <<>>
    /\ query_text = <<>>
    /\ search_string = <<>>
    /\ universal_query = <<>>
    /\ search_term = <<>>
    /\ dispatched = NothingDispatched
    /\ ui_result = NoResult
    /\ shown = <<>>

(***************************************************************************)
(* DualLLMSparqlChain.invoke, one action per collaborator outcome          *)
(***************************************************************************)
\* invoke(user_question) is entered and calls sparql_llm_chain.invoke
Invoke(r) ==
    /\ pc[r] = "idle"
    /\ \E q \in Questions :
        /\ user_question' = [user_question EXCEPT ![r] = q]
        /\ calls' = [calls EXCEPT ![r] =
              <<[callee |-> "sparql_llm_chain", prompt |-> q]>>]
    /\ pc' = [pc EXCEPT ![r] = "Generating"]
    /\ UNCHANGED <<chain, generated, sparql_query, results, rows, context,
                   ret, raised, replies, nvars, hvars, uvars>>

\* step 3 running the raw generated text instead of the normalized query
GenerateReturn_RunsRaw(r) ==
    /\ pc[r] = "Generating"
    /\ \E g \in GenOutputs :
        /\ generated' = [generated EXCEPT ![r] = g]
        /\ sparql_query' = [sparql_query EXCEPT ![r] = _normalize_sparql(g)]
        /\ calls' = [calls EXCEPT ![r] = Append(@,
              [callee |-> "graph.query", query |-> g])]
        /\ replies' = [replies EXCEPT ![r] = Append(@, Returned(g))]
    /\ pc' = [pc EXCEPT ![r] = "Executing"]
    /\ UNCHANGED <<chain, user_question, results, rows, context, ret, raised,
                   nvars, hvars, uvars>>

\* step 1 returns; step 2 normalizes; step 3 calls graph.query
GenerateReturn(r) ==
    /\ pc[r] = "Generating"
    /\ \E g \in GenOutputs :
        /\ generated' = [generated EXCEPT ![r] = g]
        /\ sparql_query' = [sparql_query EXCEPT ![r] = _normalize_sparql(g)]
        /\ calls' = [calls EXCEPT ![r] = Append(@,
              [callee |-> "graph.query", query |-> _normalize_sparql(g)])]
        /\ replies' = [replies EXCEPT ![r] = Append(@, Returned(g))]
    /\ pc' = [pc EXCEPT ![r] = "Executing"]
    /\ UNCHANGED <<chain, user_question, results, rows, context, ret, raised,
                   nvars, hvars, uvars>>

\* step 1 raises: nothing in invoke catches it
GenerateRaise(r) ==
    /\ pc[r] = "Generating"
    /\ raised' = [raised EXCEPT ![r] = ModelUnavailable]
    /\ replies' = [replies EXCEPT ![r] = Append(@, Raised(ModelUnavailable))]
    /\ pc' = [pc EXCEPT ![r] = "Raised"]
    /\ UNCHANGED <<chain, user_question, generated, sparql_query, results,
                   rows, context, ret, calls, nvars, hvars, uvars>>

\* graph.query raises and the except branch asks the generator again
ExecuteRaise_Retry(r) ==
    /\ pc[r] = "Executing"
    /\ \E e \in QueryErrors :
        replies' = [replies EXCEPT ![r] = Append(@, Raised(e))]
    /\ calls' = [calls EXCEPT ![r] = Append(@,
          [callee |-> "sparql_llm_chain", prompt |-> user_question[r]])]
    /\ pc' = [pc EXCEPT ![r] = "Generating"]
    /\ UNCHANGED <<chain, user_question, generated, sparql_query, results,
                   rows, context, ret, raised, nvars, hvars, uvars>>

\* graph.query raises: the except branch returns the error dict
ExecuteRaise(r) ==
    /\ pc[r] = "Executing"
    /\ \E e \in QueryErrors :
        /\ ret' = [ret EXCEPT ![r] = ErrorResult(e, sparql_query[r])]
        /\ replies' = [replies EXCEPT ![r] = Append(@, Raised(e))]
    /\ pc' = [pc EXCEPT ![r] = "Done"]
    /\ UNCHANGED <<chain, user_question, generated, sparql_query, results,
                   rows, context, raised, calls, nvars, hvars, uvars>>

\* graph.query returns; step 4 formats; step 5 either calls qa_llm_chain or
\* returns the fixed answer
ExecuteReturn(r) ==
    /\ pc[r] = "Executing"
    /\ \E res \in ResultSets :
        LET rs == FormatRows(res)
            ctx == FormatContext(rs)
        IN  /\ results' = [results EXCEPT ![r] = res]
            /\ rows' = [rows EXCEPT ![r] = rs]
            /\ context' = [context EXCEPT ![r] = ctx]
            /\ replies' = [replies EXCEPT ![r] = Append(@, Returned(res))]
            /\ IF Truthy(rs)
               THEN /\ calls' = [calls EXCEPT ![r] = Append(@,
                          [callee |-> "qa_llm_chain",
                           prompt |-> user_question[r], context |-> ctx])]
                    /\ pc' = [pc EXCEPT ![r] = "Synthesizing"]
                    /\ UNCHANGED ret
               ELSE /\ ret' = [ret EXCEPT ![r] =
                          AnswerResult(NoResultsFound, sparql_query[r], rs)]
                    /\ pc' = [pc EXCEPT ![r] = "Done"]
                    /\ UNCHANGED calls
    /\ UNCHANGED <<chain, user_question, generated, sparql_query, raised,
                   nvars, hvars, uvars>>

\* the final dict built from a query kept where the other request writes too
SynthesizeReturn_SharedQuery(r) ==
    /\ pc[r] = "Synthesizing"
    /\ \E a \in Answers :
        LET o == CHOOSE x \in Requests : x # r
            q == IF pc[o] \in {"off", "idle", "Generating"}
                 THEN sparql_query[r] ELSE sparql_query[o]
        IN  /\ ret' = [ret EXCEPT ![r] = AnswerResult(a, q, rows[r])]
            /\ replies' = [replies EXCEPT ![r] = Append(@, Returned(a))]
    /\ pc' = [pc EXCEPT ![r] = "Done"]
    /\ UNCHANGED <<chain, user_question, generated, sparql_query, results,
                   rows, context, raised, calls, nvars, hvars, uvars>>

\* qa_llm_chain.invoke returns: invoke returns the answer dict
SynthesizeReturn(r) ==
    /\ pc[r] = "Synthesizing"
    /\ \E a \in Answers :
        /\ ret' = [ret EXCEPT ![r] = AnswerResult(a, sparql_query[r], rows[r])]
        /\ replies' = [replies EXCEPT ![r] = Append(@, Returned(a))]
    /\ pc' = [pc EXCEPT ![r] = "Done"]
    /\ UNCHANGED <<chain, user_question, generated, sparql_query, results,
                   rows, context, raised, calls, nvars, hvars, uvars>>

\* qa_llm_chain.invoke raises inside a try block that returns an error dict
SynthesizeRaise_Caught(r) ==
    /\ pc[r] = "Synthesizing"
    /\ ret' = [ret EXCEPT ![r] = ErrorResult(ModelUnavailable, sparql_query[r])]
    /\ replies' = [replies EXCEPT ![r] = Append(@, Raised(ModelUnavailable))]
    /\ pc' = [pc EXCEPT ![r] = "Done"]
    /\ UNCHANGED <<chain, user_question, generated, sparql_query, results,
                   rows, context, raised, calls, nvars, hvars, uvars>>

\* qa_llm_chain.invoke raises: nothing in invoke catches it
SynthesizeRaise(r) ==
    /\ pc[r] = "Synthesizing"
    /\ raised' = [raised EXCEPT ![r] = ModelUnavailable]
    /\ replies' = [replies EXCEPT ![r] = Append(@, Raised(ModelUnavailable))]
    /\ pc' = [pc EXCEPT ![r] = "Raised"]
    /\ UNCHANGED <<chain, user_question, generated, sparql_query, results,
                   rows, context, ret, calls, nvars, hvars, uvars>>

Init == ChainIdle({1}) /\ NormIdle /\ HighlightIdle /\ UIIdle

Next ==
    \E r \in Requests :
        \/ Invoke(r)
        \/ GenerateReturn(r)
        \/ GenerateRaise(r)
        \/ ExecuteRaise(r)
        \/ ExecuteReturn(r)
        \/ SynthesizeReturn(r)
        \/ SynthesizeRaise(r)

Spec == Init /\ [][Next]_vars

(***************************************************************************)
(* Two sessions calling invoke on the one cached chain object at once      *)
(***************************************************************************)
\* what the collaborators answer while two requests are in flight
ConcGenOutputs == {SELECT, where, FencedSelect}

ConcResultSets == {<<>>, <<<<AgentURI>>>>, <<<<EmptyLiteral, AgentURI>>>>}

InitConc == ChainIdle(Requests) /\ NormIdle /\ HighlightIdle /\ UIIdle

NextConc ==
    \E r \in Requests :
        \/ Invoke(r)
        \/ GenerateReturn(r) /\ generated'[r] \in ConcGenOutputs
        \/ GenerateRaise(r)
        \/ ExecuteRaise(r)
        \/ ExecuteReturn(r) /\ results'[r] \in ConcResultSets
        \/ SynthesizeReturn(r)
        \/ SynthesizeRaise(r)

SpecConc == InitConc /\ [][NextConc]_vars

(***************************************************************************)
(* _normalize_sparql on its own                                            *)
(***************************************************************************)


InitNorm ==
    /\ ChainIdle({})
    /\ HighlightIdle
    /\ UIIdle
    /\ nq_pc = "raw"
    /\ nq_raw \in RawQueries
    /\ nq_once = <<>>
    /\ nq_twice = <<>>

\* one call of _normalize_sparql on the raw query
Normalize ==
    /\ nq_pc = "raw"
    /\ nq_once' = _normalize_sparql(nq_raw)
    /\ nq_pc' = "once"
    /\ UNCHANGED <<nq_raw, nq_twice, cvars, hvars, uvars>>

\* a second call on the result of the first
NormalizeAgain ==
    /\ nq_pc = "once"
    /\ nq_twice' = _normalize_sparql(nq_once)
    /\ nq_pc' = "twice"
    /\ UNCHANGED <<nq_raw, nq_once, cvars, hvars, uvars>>

NextNorm == Normalize \/ NormalizeAgain

SpecNorm == InitNorm /\ [][NextNorm]_vars

(***************************************************************************)
(* highlight_term (defined inside the Submit handler of both scripts)      *)
(***************************************************************************)
\* the elements of the returned list: a plain str or an annotated tuple
Plain(text) == [kind |-> "str", text |-> text]
Annotated(text) ==
    [kind |-> "tuple", text |-> text, label |-> text, color |-> "#ff0"]

highlight_term(text, term) ==
    LET lower == Lower(text)
        start == Find(lower, term)
    IN  IF start >= 0
        THEN LET term_text == PySlice(text, start, start + Len(term))
             IN  <<Plain(PySlice(text, 0, start)),
                   Annotated(term_text),
                   Plain(PySlice(text, start + Len(term), Len(text)))>>
        ELSE <<Plain(text)>>

\* texts of the graph and lowercased, non-empty search terms
TextChars == {"A", "a", "b", IDOT}

Texts == UNION {[1..k -> TextChars] : k \in 0..MaxTextLen}

Terms == {Lower(t) : t \in Texts \ {<<>>}}

InitHighlight ==
    /\ ChainIdle({})
    /\ NormIdle
    /\ UIIdle
    /\ hl_pc = "call"
    /\ hl_text \in Texts
    /\ hl_term \in Terms
    /\ hl_out = <<>>

\* one call of highlight_term
Highlight ==
    /\ hl_pc = "call"
    /\ hl_out' = highlight_term(hl_text, hl_term)
    /\ hl_pc' = "done"
    /\ UNCHANGED <<hl_text, hl_term, cvars, nvars, uvars>>

NextHighlight == Highlight

SpecHighlight == InitHighlight /\ [][NextHighlight]_vars

(***************************************************************************)
(* The Submit handler of src/app.py ("app") and of                         *)
(* src/streamlit_app/app.py ("streamlit_app")                              *)
(***************************************************************************)
DQ == "\""
BSL == "\\"

Apps == {"app", "streamlit_app"}
NaturalLanguage == "Natural Language Question"
UniversalSearch == "Universal String Search"
Modes == {NaturalLanguage, UniversalSearch}

\* what the user can type
InputChars == {BT, SP, "A", DQ, BSL}

UserInputs == UNION {[1..k -> InputChars] : k \in 0..MaxInputLen}

\* the f-string universal_query: the fixed text before the literal, the
\* opening quote, search_string, the closing quote, the fixed text after it
QUERY_HEAD ==
    "SELECT ?subject ?predicate ?object WHERE { ?subject ?predicate ?object . FILTER (isLiteral(?object) && CONTAINS(LCASE(STR(?object)), "
QUERY_TAIL == ")) }"

UniversalQuery(s) == <<QUERY_HEAD, DQ>> \o s \o <<DQ, QUERY_TAIL>>

\* the literal triples of the graph
GraphTriples ==
    << [subject |-> <<"s">>, predicate |-> <<"p">>, object |-> <<"A">>],
       [subject |-> <<"t">>, predicate |-> <<"p">>,
        object |-> <<"a", " ", "A">>] >>

\* the SPARQL lexer reading a string literal: the index of the first quote at
\* or after i that no backslash escapes, 0 when there is none
RECURSIVE ClosingQuote(_, _)
ClosingQuote(q, i) ==
    IF i > Len(q) THEN 0
    ELSE IF q[i] = DQ THEN i
    ELSE IF q[i] = BSL THEN ClosingQuote(q, i + 2)
    ELSE ClosingQuote(q, i + 1)

\* the characters a backslash may precede in a SPARQL string literal (ECHAR)
EscapedChars == {"t", "b", "n", "r", "f", BSL, DQ, "'"}

\* the value of a literal body: escapes resolved; <<"invalid">> marks a body
\* the lexer rejects
RECURSIVE LiteralValue(_)
LiteralValue(b) ==
    IF b = <<>> THEN <<>>
    ELSE IF Head(b) = BSL
         THEN IF Len(b) >= 2 /\ b[2] \in EscapedChars
              THEN <<b[2]>> \o LiteralValue(Drop(b, 2))
              ELSE <<"invalid">>
    ELSE IF Head(b) = NL THEN <<"invalid">>
    ELSE <<Head(b)>> \o LiteralValue(Tail(b))

\* the query still has the shape of the template: the literal opened by the
\* template's quote is closed by the template's quote
TemplateShape(q) == ClosingQuote(q, 3) = Len(q) - 1

\* the rows the store may return for the query: the triples whose lowercased
\* object contains the literal when the query has the template's shape, any
\* rows when it has another
RECURSIVE Matching(_, _)
Matching(triples, value) ==
    IF triples = <<>> THEN <<>>
    ELSE IF Find(Lower(Head(triples).object), value) >= 0
         THEN <<Head(triples)>> \o Matching(Tail(triples), value)
    ELSE Matching(Tail(triples), value)

StoreRows(q) ==
    IF TemplateShape(q)
    THEN LET value == LiteralValue(SubSeq(q, 3, Len(q) - 2))
         IN  IF "invalid" \in {value[i] : i \in DOMAIN value} THEN {}
             ELSE {Matching(GraphTriples, value)}
    ELSE {<<>>, GraphTriples}

\* what chain.invoke may return: DualLLMSparqlChain.invoke in streamlit_app,
\* OntotextGraphDBQAChain.invoke in app
ChainReturns(app) ==
    IF app = "streamlit_app"
    THEN {ErrorResult(e, SELECT) : e \in QueryErrors}
         \cup {AnswerResult(a, SELECT, <<<<"u">>>>) : a \in Answers}
         \cup {AnswerResult(NoResultsFound, SELECT, <<>>)}
    ELSE {[result |-> PyStr(a)] : a \in Answers}

Widget(w, body) == [widget |-> w, body |-> body]

\* the widgets drawn for one row of the search results
ResultWidget(i, row, term) ==
    [widget |-> "result", index |-> i,
     subject |-> highlight_term(row.subject, term),
     predicate |-> highlight_term(row.predicate, term),
     object |-> highlight_term(row.object, term)]

\* the widgets drawn after a search came back
SearchWidgets(q, rs, term) ==
    << Widget("subheader", "SPARQL Query"), Widget("code", q),
       Widget("subheader", "Results") >>
    \o (IF rs # <<>>
        THEN [i \in DOMAIN rs |-> ResultWidget(i, rs[i], term)]
        ELSE <<Widget("info", "No matches found.")>>)

\* search_term as each script computes it inside the loop over the rows
SearchTerm(app, input, text) ==
    IF app = "app" THEN Lower(input) ELSE Lower(text)

\* a session has typed a text, chosen a mode and is about to press Submit
InitUI ==
    /\ ChainIdle({})
    /\ NormIdle
    /\ HighlightIdle
    /\ ui_app \in Apps
    /\ ui_pc = "ready"
    /\ mode \in Modes
    /\ user_input \in UserInputs
    /\ query_text = <<>>
    /\ search_string = <<>>
    /\ universal_query = <<>>
    /\ search_term = <<>>
    /\ dispatched = NothingDispatched
    /\ ui_result = NoResult
    /\ shown = <<>>

\* Submit is pressed: the handler runs up to its first call out
Submit ==
    /\ ui_pc = "ready"
    /\ LET qt == Replace(Strip(user_input), <<BT>>, <<>>)
       IN  /\ query_text' = qt
           /\ IF qt = <<>>
              THEN /\ shown' = <<Widget("warning", "Please enter a question.")>>
                   /\ ui_pc' = "shown"
                   /\ UNCHANGED <<search_string, universal_query, dispatched>>
              ELSE IF mode = UniversalSearch
              THEN /\ search_string' = Lower(qt)
                   /\ universal_query' = UniversalQuery(Lower(qt))
                   /\ dispatched' = [to |-> "store", text |-> Lower(qt)]
                   /\ ui_pc' = "querying"
                   /\ UNCHANGED shown
              ELSE /\ dispatched' =
                        [to |-> "chain.invoke",
                         text |-> IF ui_app = "app" THEN Strip(qt) ELSE qt]
                   /\ ui_pc' = "asking"
                   /\ UNCHANGED <<search_string, universal_query, shown>>
    /\ UNCHANGED <<ui_app, mode, user_input, search_term, ui_result, cvars,
                   nvars, hvars>>

\* the store answers the search: the query and the rows are drawn
SearchReturn ==
    /\ ui_pc = "querying"
    /\ \E rs \in StoreRows(universal_query) :
        LET term == SearchTerm(ui_app, user_input, query_text)
        IN  /\ search_term' = IF rs # <<>> THEN term ELSE search_term
            /\ shown' = SearchWidgets(universal_query, rs, term)
    /\ ui_pc' = "shown"
    /\ UNCHANGED <<ui_app, mode, user_input, query_text, search_string,
                   universal_query, dispatched, ui_result, cvars, nvars,
                   hvars>>

\* the store raises: streamlit_app reports it and goes on with no rows, app
\* leaves the try block
SearchRaise ==
    /\ ui_pc = "querying"
    /\ \E e \in QueryErrors :
        shown' = IF ui_app = "streamlit_app"
                 THEN <<Widget("error", <<"SPARQL query failed: ", e>>)>>
                      \o SearchWidgets(universal_query, <<>>, <<>>)
                 ELSE << Widget("error", "Error running query:"),
                         Widget("exception", e) >>
    /\ ui_pc' = "shown"
    /\ UNCHANGED <<ui_app, mode, user_input, query_text, search_string,
                   universal_query, search_term, dispatched, ui_result,
                   cvars, nvars, hvars>>

\* chain.invoke returns: the answer is drawn under the success banner
AskReturn ==
    /\ ui_pc = "asking"
    /\ \E res \in ChainReturns(ui_app) :
        /\ ui_result' = res
        /\ shown' =
              IF ui_app = "streamlit_app"
              THEN << Widget("success", "Answer:"),
                      Widget("markdown", res.result),
                      Widget("markdown",
                             "Here is the SPARQL query I used to find that information:"),
                      Widget("code", res.sparql_query) >>
              ELSE << Widget("success", "Answer:"),
                      Widget("markdown",
                             IF "result" \in DOMAIN res THEN res.result
                             ELSE PyStr("[No result returned]")) >>
    /\ ui_pc' = "shown"
    /\ UNCHANGED <<ui_app, mode, user_input, query_text, search_string,
                   universal_query, search_term, dispatched, cvars, nvars,
                   hvars>>

\* chain.invoke raises: the outer except branch reports it
AskRaise ==
    /\ ui_pc = "asking"
    /\ shown' = << Widget("error", "Error running query:"),
                   Widget("exception", ModelUnavailable) >>
    /\ ui_pc' = "shown"
    /\ UNCHANGED <<ui_app, mode, user_input, query_text, search_string,
                   universal_query, search_term, dispatched, ui_result,
                   cvars, nvars, hvars>>

NextUI == Submit \/ SearchReturn \/ SearchRaise \/ AskReturn \/ AskRaise

SpecUI == InitUI /\ [][NextUI]_vars

(***************************************************************************)
(* Vocabulary of the properties                                            *)
(***************************************************************************)
EndsWith(s, p) ==
    Len(s) >= Len(p) /\ SubSeq(s, Len(s) - Len(p) + 1, Len(s)) = p

HasBacktick(s) == \E i \in DOMAIN s : s[i] = BT

\* request r called the named collaborator
HasCall(r, callee) == \E i \in DOMAIN calls[r] : calls[r][i].callee = callee

\* the i-th call of request r went to graph.query and ended the given way
ExecutorEnded(r, i, kind) ==
    /\ i \in DOMAIN replies[r]
    /\ calls[r][i].callee = "graph.query"
    /\ replies[r][i].kind = kind

ExecutorReturned(r) == \E i \in DOMAIN replies[r] : ExecutorEnded(r, i, "return")

QueryKeywords == {SELECT, ASK, CONSTRUCT, DESCRIBE}

BeginsWithQueryKeyword(q) == \E k \in QueryKeywords : StartsWith(q, k)

\* the textual form of a value, written out by kind
RawText(v) ==
    CASE v.kind = "Literal" -> v.text
      [] v.kind = "URIRef" -> v.text
      [] v.kind = "None" -> <<"N", "o", "n", "e">>

\* the first non-empty label of a resource in the order preferred label,
\* name; the raw text when the value is no resource or has no label
ResolvedText(v) ==
    IF v.kind # "URIRef" THEN RawText(v)
    ELSE IF v.text \in DOMAIN chain.graph.prefLabel
            /\ chain.graph.prefLabel[v.text] # <<>>
         THEN chain.graph.prefLabel[v.text]
    ELSE IF v.text \in DOMAIN chain.graph.name
            /\ chain.graph.name[v.text] # <<>>
         THEN chain.graph.name[v.text]
    ELSE RawText(v)

\* invoke returned the dict of its last statement
ReturnedAnswer(r) == pc[r] = "Done" /\ "error" \notin DOMAIN ret[r]

(***************************************************************************)
(* C1: _normalize_sparql is idempotent: normalizing the result of a        *)
(* normalization gives that result back.                                   *)
(***************************************************************************)
C1_Idempotent == nq_pc = "twice" => nq_twice = nq_once

(***************************************************************************)
(* C2: the output of _normalize_sparql holds no backtick, hence no code    *)
(* fence, whatever backticks and fences the input held.                    *)
(***************************************************************************)
C2_NoBacktickInOutput ==
    /\ nq_pc \in {"once", "twice"} => ~HasBacktick(nq_once)
    /\ nq_pc = "twice" => ~HasBacktick(nq_twice)

\* a raw query holding a fence and a backtick outside any fence was normalized
C2_Witness ==
    /\ nq_pc = "once"
    /\ StartsWith(nq_raw, <<BT>> \o FENCE_SPARQL)
    /\ nq_once # <<>>

(***************************************************************************)
(* C3: a raw query that begins, once trimmed, with WHERE in any letter     *)
(* case comes out as "SELECT * " followed by the cleaned text; one that    *)
(* begins with SELECT comes out as the cleaned text, nothing prepended.    *)
(***************************************************************************)
C3_WherePrefixRepair ==
    nq_pc = "once" =>
        /\ StartsWith(Upper(Strip(nq_raw)), WHERE) =>
              /\ nq_once = SELECT_STAR \o CleanQuery(nq_raw)
              /\ StartsWith(Upper(nq_once), SELECT_STAR \o WHERE)
        /\ StartsWith(Strip(nq_raw), SELECT) =>
              /\ nq_once = CleanQuery(nq_raw)
              /\ StartsWith(nq_once, SELECT)
              /\ ~StartsWith(nq_once, SELECT_STAR \o SELECT)

\* a lower-case where behind leading whitespace was repaired
C3_Witness ==
    /\ nq_pc = "once"
    /\ StartsWith(nq_raw, <<NL>> \o where)
    /\ StartsWith(nq_once, SELECT_STAR \o where)

(***************************************************************************)
(* C4: for a generated query made of the opening fence with the sparql     *)
(* tag, a newline, a text beginning with SELECT, a newline and the closing *)
(* fence, the output of _normalize_sparql begins with SELECT.              *)
(***************************************************************************)
C4_FencedQueryStartsWithSelect ==
    ( /\ nq_pc = "once"
      /\ StartsWith(nq_raw, FENCE_SPARQL \o <<NL>> \o SELECT)
      /\ EndsWith(nq_raw, <<NL>> \o FENCE) )
    => StartsWith(nq_once, SELECT)

(***************************************************************************)
(* C5: when graph.query raises, invoke returns a dict whose result is      *)
(* None, whose error is the text of the exception and whose rows are       *)
(* empty, and the answer model is not called.                              *)
(***************************************************************************)
C5_ExecutorFailureResult ==
    \A r \in Requests : \A i \in DOMAIN replies[r] :
        ExecutorEnded(r, i, "raise") =>
            /\ pc[r] = "Done"
            /\ ret[r].result = PyNone
            /\ "error" \in DOMAIN ret[r]
            /\ ret[r].error = PyStr(replies[r][i].value)
            /\ ret[r].error # PyNone
            /\ ret[r].rows = <<>>
            /\ ~HasCall(r, "qa_llm_chain")

\* invoke returned after graph.query raised
C5_Witness ==
    \E r \in Requests :
        /\ pc[r] = "Done"
        /\ ExecutorEnded(r, 2, "raise")
        /\ replies[r][2].value \in QueryErrors

(***************************************************************************)
(* C6: when the executor returns zero rows, the answer model is not        *)
(* called and invoke returns the answer "No results found." with empty     *)
(* rows and no error.                                                      *)
(***************************************************************************)
C6_EmptyResultShortcut ==
    \A r \in Requests :
        (ExecutorReturned(r) /\ results[r] = <<>>) =>
            /\ pc[r] = "Done"
            /\ ~HasCall(r, "qa_llm_chain")
            /\ ret[r].result = PyStr("No results found.")
            /\ ret[r].rows = <<>>
            /\ "error" \notin DOMAIN ret[r]

\* invoke returned after the executor returned zero rows
C6_Witness ==
    \E r \in Requests :
        /\ pc[r] = "Done"
        /\ ExecutorReturned(r)
        /\ results[r] = <<>>
        /\ Len(calls[r]) = 2

(***************************************************************************)
(* C7: whenever the context built from the executor's rows is the empty    *)
(* string, the answer model is not called and the fixed answer is          *)
(* returned, also when the executor returned rows that render as empty     *)
(* text.                                                                   *)
(***************************************************************************)
C7_EmptyContextSkipsModel ==
    \A r \in Requests :
        (ExecutorReturned(r) /\ context[r] = <<>>) =>
            /\ ~HasCall(r, "qa_llm_chain")
            /\ pc[r] = "Done"
            /\ ret[r].result = PyStr("No results found.")

(***************************************************************************)
(* C8: every query invoke passes to the executor begins with SELECT, ASK,  *)
(* CONSTRUCT or DESCRIBE.                                                  *)
(***************************************************************************)
C8_ExecutedQueryBeginsWithKeyword ==
    \A r \in Requests : \A i \in DOMAIN calls[r] :
        calls[r][i].callee = "graph.query" =>
            BeginsWithQueryKeyword(calls[r][i].query)

(***************************************************************************)
(* C9 as claimed: every collaborator failure ends in a returned dict that  *)
(* carries an error message, never in an exception raised out of invoke.   *)
(***************************************************************************)
C9_EveryFailureReturned ==
    \A r \in Requests : \A i \in DOMAIN replies[r] :
        replies[r][i].kind = "raise" =>
            /\ pc[r] = "Done"
            /\ "error" \in DOMAIN ret[r]
            /\ ret[r].error # PyNone

(***************************************************************************)
(* C9 as amended: a failure of graph.query ends in a returned dict that    *)
(* carries the error message; a failure of the query-generation or of the  *)
(* answer-synthesis model call leaves invoke as the raised exception, and  *)
(* no dict is returned.                                                    *)
(***************************************************************************)
C9_FailureSurfaces ==
    \A r \in Requests : \A i \in DOMAIN replies[r] :
        replies[r][i].kind = "raise" =>
            IF calls[r][i].callee = "graph.query"
            THEN /\ pc[r] = "Done"
                 /\ "error" \in DOMAIN ret[r]
                 /\ ret[r].error = PyStr(replies[r][i].value)
            ELSE /\ pc[r] = "Raised"
                 /\ raised[r] = replies[r][i].value
                 /\ DOMAIN ret[r] = {}

\* the answer model failed after the executor had returned rows
C9_Witness ==
    \E r \in Requests :
        /\ pc[r] = "Raised"
        /\ HasCall(r, "qa_llm_chain")
        /\ replies[r][3].kind = "raise"

C11_DispatchedNonEmpty ==
    /\ dispatched.to # "nothing" => Strip(dispatched.text) # <<>>
    /\ (ui_pc \notin {"off", "ready"}
          /\ Strip(Replace(user_input, <<BT>>, <<>>)) = <<>>)
       => /\ dispatched.to = "nothing"
          /\ Len(shown) = 1
          /\ shown[1].widget = "warning"

(***************************************************************************)
(* C12: on the success path (all three collaborators return, the executor  *)
(* with at least one row) the returned answer is the answer model's        *)
(* response unmodified, rows is as long as the executor's result set and   *)
(* the dict carries no error.                                              *)
(***************************************************************************)
C12_SuccessPathResult ==
    \A r \in Requests :
        ( /\ Len(replies[r]) = 3
          /\ \A i \in 1..3 : replies[r][i].kind = "return"
          /\ replies[r][2].value # <<>> )
        => /\ pc[r] = "Done"
           /\ ret[r].result = PyStr(replies[r][3].value)
           /\ Len(ret[r].rows) = Len(replies[r][2].value)
           /\ "error" \notin DOMAIN ret[r]

\* invoke returned after the answer model answered from two rows
C12_Witness ==
    \E r \in Requests :
        /\ pc[r] = "Done"
        /\ Len(replies[r]) = 3
        /\ replies[r][3].kind = "return"
        /\ Len(results[r]) = 2
        /\ ret[r].result.value \in Answers

(***************************************************************************)
(* C13: the collaborator calls of one invoke are a prefix of generator,    *)
(* executor, answer model: each at most once, each only after the one      *)
(* before it returned, none after a failure, and invoke never goes back to *)
(* an earlier stage.                                                       *)
(***************************************************************************)
CallOrder == <<"sparql_llm_chain", "graph.query", "qa_llm_chain">>

Stage(p) ==
    CASE p \in {"off", "idle"} -> 0
      [] p = "Generating" -> 1
      [] p = "Executing" -> 2
      [] p = "Synthesizing" -> 3
      [] p \in {"Done", "Raised"} -> 4

HasFailed(r) == \E i \in DOMAIN replies[r] : replies[r][i].kind = "raise"

C13_LinearCalls ==
    \A r \in Requests :
        /\ Len(calls[r]) <= 3
        /\ \A i \in DOMAIN calls[r] : calls[r][i].callee = CallOrder[i]
        /\ Len(replies[r]) <= Len(calls[r])
        /\ Len(replies[r]) >= Len(calls[r]) - 1
        /\ \A i \in DOMAIN replies[r] :
            /\ i < Len(calls[r]) => replies[r][i].kind = "return"
            /\ replies[r][i].kind = "raise" => Len(calls[r]) = i

C13_LinearStep ==
    \A r \in Requests :
        /\ calls'[r] # calls[r] =>
            /\ Len(calls'[r]) = Len(calls[r]) + 1
            /\ SubSeq(calls'[r], 1, Len(calls[r])) = calls[r]
        /\ HasFailed(r) => (calls'[r] = calls[r] /\ pc'[r] = pc[r])
        /\ pc'[r] # pc[r] => Stage(pc'[r]) > Stage(pc[r])

C13_LinearPipeline == [](C13_LinearCalls) /\ [][C13_LinearStep]_vars

\* the executor failed after the generator returned, and invoke ended
C13_Witness ==
    \E r \in Requests :
        /\ pc[r] = "Done"
        /\ Len(calls[r]) = 2
        /\ replies[r][2].kind = "raise"

(***************************************************************************)
(* C14: in every returned dict, with or without an error, sparql_query is  *)
(* the string passed to graph.query, and that string is _normalize_sparql  *)
(* of the generator's output.                                              *)
(***************************************************************************)
C14_ReturnedQueryIsExecutedQuery ==
    \A r \in Requests :
        pc[r] = "Done" =>
            /\ calls[r][2].callee = "graph.query"
            /\ ret[r].sparql_query = calls[r][2].query
            /\ calls[r][2].query = _normalize_sparql(replies[r][1].value)
            /\ ~HasBacktick(ret[r].sparql_query)

\* an error dict was returned for a generator output that normalization changed
C14_Witness ==
    \E r \in Requests :
        /\ pc[r] = "Done"
        /\ "error" \in DOMAIN ret[r]
        /\ replies[r][1].value = FencedSelect
        /\ ret[r].sparql_query # replies[r][1].value

(***************************************************************************)
(* C15: the i-th formatted row is the textual forms of the values of the   *)
(* i-th executor row, in order, joined by " | "; the context handed to the *)
(* answer model is the formatted rows, in executor order, joined by a      *)
(* newline; there are as many formatted rows as executor rows.             *)
(***************************************************************************)
C15_RowsAndContext ==
    \A r \in Requests :
        ExecutorReturned(r) =>
            /\ Len(rows[r]) = Len(results[r])
            /\ \A i \in DOMAIN results[r] :
                rows[r][i] =
                    Join(<<" ", "|", " ">>,
                         [j \in DOMAIN results[r][i] |->
                             RawText(results[r][i][j])])
            /\ HasCall(r, "qa_llm_chain") =>
                  calls[r][3].context = Join(<<"\n">>, rows[r])
            /\ pc[r] = "Done" => ret[r].rows = rows[r]

\* the answer model was called with two different rows, one of two values
C15_Witness ==
    \E r \in Requests :
        /\ HasCall(r, "qa_llm_chain")
        /\ results[r] = <<<<AgentURI, EmptyLiteral>>, <<EmptyLiteral>>>>
        /\ rows[r] = <<<<"u", " ", "|", " ">>, <<>>>>

(***************************************************************************)
(* C16: with two invoke calls interleaved on the same chain object, the    *)
(* fields of the chain object are never written, every collaborator call   *)
(* of a request carries that request's own question, query and rows, and   *)
(* the dict a request gets back is the one its own question and the        *)
(* replies to its own calls determine.                                     *)
(***************************************************************************)
\* the rows of request r, computed from the executor's reply to its call
OwnRows(r) ==
    [i \in DOMAIN replies[r][2].value |->
        Join(<<" ", "|", " ">>,
             [j \in DOMAIN replies[r][2].value[i] |->
                 RawText(replies[r][2].value[i][j])])]

\* the dict request r must get back, computed from the replies to its calls
OwnResult(r) ==
    LET q == _normalize_sparql(replies[r][1].value)
    IN  IF replies[r][2].kind = "raise"
        THEN [result |-> PyNone, error |-> PyStr(replies[r][2].value),
              sparql_query |-> q, rows |-> <<>>]
        ELSE [result |-> IF OwnRows(r) = <<>> THEN PyStr("No results found.")
                         ELSE PyStr(replies[r][3].value),
              sparql_query |-> q, rows |-> OwnRows(r)]

C16_RequestsIndependent ==
    /\ chain = ChainObject
    /\ \A r \in Requests :
        /\ \A i \in DOMAIN calls[r] :
            /\ i \in {1, 3} => calls[r][i].prompt = user_question[r]
            /\ i = 2 => calls[r][i].query = _normalize_sparql(replies[r][1].value)
            /\ i = 3 => calls[r][i].context =
                            Join(<<"\n">>, OwnRows(r))
        /\ pc[r] = "Done" =>
            /\ DOMAIN ret[r] = DOMAIN OwnResult(r)
            /\ \A k \in DOMAIN ret[r] : ret[r][k] = OwnResult(r)[k]

\* request 1 got its answer while request 2, with another question, another
\* query and other rows, was still waiting for the answer model
C16_Witness ==
    /\ pc[1] = "Done"
    /\ pc[2] = "Synthesizing"
    /\ Len(replies[1]) = 3
    /\ user_question[1] # user_question[2]
    /\ sparql_query[1] # sparql_query[2]
    /\ results[1] # results[2]

\* the handler has drawn the widget w
Shows(w) == \E i \in DOMAIN shown : shown[i].widget = w

(***************************************************************************)
(* C17: in the Natural Language mode of streamlit_app, when chain.invoke   *)
(* returns the executor-failure result (result None, error set) the error  *)
(* is presented and no success banner is drawn.                            *)
(***************************************************************************)
C17_ErrorResultPresented ==
    (ui_app = "streamlit_app" /\ ui_pc = "shown"
        /\ "error" \in DOMAIN ui_result)
    => /\ Shows("error") \/ Shows("exception")
       /\ ~Shows("success")

(***************************************************************************)
(* C18: in Universal String Search, in both apps, the term used to         *)
(* highlight the rows is the search string embedded in the CONTAINS        *)
(* filter, and every row returned for a query of the template's shape has  *)
(* a highlighted element in its object.                                    *)
(***************************************************************************)
C18_HighlightTermIsSearchString ==
    (ui_pc = "shown" /\ Shows("result"))
    => /\ search_term = search_string
       /\ TemplateShape(universal_query)
          => \A i \in DOMAIN shown :
                shown[i].widget = "result"
                => \E j \in DOMAIN shown[i].object :
                      shown[i].object[j].kind = "tuple"

(***************************************************************************)
(* C19: in Universal String Search the user's text stays inside the one    *)
(* double-quoted literal of the CONTAINS filter: the literal opened by the *)
(* template's quote is closed by the template's closing quote, whatever    *)
(* the input.                                                              *)
(***************************************************************************)
C19_InputConfinedToLiteral ==
    dispatched.to = "store" => TemplateShape(universal_query)

(***************************************************************************)
(* C20: highlight_term keeps the text: the elements of the returned list,  *)
(* concatenated, are the text; when the lowercased text contains the       *)
(* (non-empty, lowercased) term, exactly one element is highlighted, it    *)
(* is the leftmost occurrence and equals the term up to letter case; when  *)
(* it does not, the list is the one plain element [text].                  *)
(***************************************************************************)
C20_HighlightPreservesText ==
    hl_pc = "done" =>
        /\ Concat([i \in DOMAIN hl_out |-> hl_out[i].text]) = hl_text
        /\ IF Find(Lower(hl_text), hl_term) >= 0
           THEN /\ Len(hl_out) = 3
                /\ hl_out[1].kind = "str"
                /\ hl_out[2].kind = "tuple"
                /\ hl_out[3].kind = "str"
                /\ Lower(hl_out[2].text) = hl_term
                /\ Find(Lower(hl_out[1].text \o hl_out[2].text), hl_term)
                      = Len(Lower(hl_out[1].text))
           ELSE hl_out = <<Plain(hl_text)>>

====
